---------------------------- MODULE Spec2Model ----------------------------
(***************************************************************************)
(* A model of the diff package (mark-summerfield/diff): the sequence       *)
(* matcher behind Diff (direct equality, diff2.go) and DiffKeyFn (equality *)
(* by a key function), from the index over B to the tagged spans and       *)
(* blocks.  Go slices are 0-based: At and Slice translate the indexing.    *)
(***************************************************************************)
EXTENDS Integers, Sequences, FiniteSets, TLC

(***************************************************************************)
(* Bounds of the model.                                                    *)
(***************************************************************************)
\* longest A and B of the exhaustively enumerated direct-equality inputs
MaxLen == 4
\* longest A and B of the exhaustively enumerated keyed inputs
MaxKeyLen == 2
\* in the long-B inputs (len(B) = PopularMinLen), the number of freely
\* chosen elements of B around the run of one repeated element
MaxAffix == 2
\* longest A and B of the inputs on which longestMatch is called directly
MaxWinLen == 4
\* longest flank of A around the common core of the branching inputs
MaxFlank == 2
\* in the counted inputs (len(B) around PopularMinLen, one element repeated
\* and every other element once), the greatest number of repetitions
MaxCount == 5
\* longest A of the counted inputs
MaxCountLen == 2

\* the elements of the direct-equality inputs
Elems == {1, 2}
\* the element repeated in the long-B inputs
Filler == CHOOSE e \in Elems : \A x \in Elems : e <= x

(***************************************************************************)
(* Program constants.                                                      *)
(***************************************************************************)
\* Tag values (iota)
Equal == 0
Insert == 1
Delete == 2
Replace == 3
\* chainBseq: len(B) from which the most popular elements leave the index
PopularMinLen == 200
\* chainBseq: limit = 1 + floor(len(B) / PopularDivisor)
PopularDivisor == 100

(***************************************************************************)
(* Go slices.                                                              *)
(***************************************************************************)
At(s, i) == s[i + 1]
Slice(s, lo, hi) == SubSeq(s, lo + 1, hi)

(***************************************************************************)
(* structs.go                                                              *)
(***************************************************************************)
newBlock(tag, aitems, bitems) ==
    [Tag |-> tag, Aitems |-> aitems, Bitems |-> bitems]

ItemsAlwaysB(block) == block.Bitems

Items(block) == IF block.Tag = Delete THEN block.Aitems ELSE block.Bitems

newMatch(astart, bstart, length) ==
    [astart |-> astart, bstart |-> bstart, length |-> length]

matchLess(a, b) ==
    IF a.astart # b.astart THEN a.astart < b.astart
    ELSE IF a.bstart # b.bstart THEN a.bstart < b.bstart
    ELSE a.length < b.length

newQuad(astart, aend, bstart, bend) ==
    [Astart |-> astart, Aend |-> aend, Bstart |-> bstart, Bend |-> bend]

newSpan(tag, astart, aend, bstart, bend) ==
    [Tag |-> tag, Astart |-> astart, Aend |-> aend,
     Bstart |-> bstart, Bend |-> bend]

(***************************************************************************)
(* The test file's Place and the two key functions its examples pass to    *)
(* NewKeyFn: the name, and strconv.Itoa of x.                              *)
(***************************************************************************)
newPlace(x, name) == [x |-> x, name |-> name]

\* strconv.Itoa on the one-digit values the model uses
Itoa(n) == <<"0", "1", "2", "3", "4", "5", "6", "7", "8", "9">>[n + 1]

keyfnApply(keyfn, p) == IF keyfn = "name" THEN p.name ELSE Itoa(p.x)

(***************************************************************************)
(* The index over B.                                                       *)
(***************************************************************************)
EmptyMap == [x \in {} |-> 0]

\* the positions 0, 1, ... of a slice of length n, in the order of range
positions(n) == [i \in 1..n |-> i - 1]

\* what the loop over B leaves in the map, keys being the map key of each
\* element of B in order: each key mapped to its positions, appended in
\* ascending order
indexLoop(keys) ==
    [x \in {keys[n] : n \in 1..Len(keys)} |->
        SelectSeq(positions(Len(keys)), LAMBDA i : At(keys, i) = x)]

\* len(indexes) >= limit: an element at the limit leaves the index too
isPopularAtLimit(indexes, limit) == Len(indexes) >= limit

\* if len(indexes) > limit
isPopular(indexes, limit) == Len(indexes) > limit

\* Diff.chainBseq
chainBseq(b) ==
    LET index == indexLoop(b)
        length == Len(b)
    IN IF length >= PopularMinLen
       THEN LET limit == 1 + (length \div PopularDivisor)
                popular == {x \in DOMAIN index : isPopular(index[x], limit)}
            IN [x \in (DOMAIN index) \ popular |-> index[x]]
       ELSE index

\* me.b2j[key] = []int{i}: each key keeps its last position only
chainBseqKeyFnLastOnly(b, keyfn) ==
    LET index == indexLoop([n \in 1..Len(b) |-> keyfnApply(keyfn, b[n])])
    IN [key \in DOMAIN index |-> <<index[key][Len(index[key])]>>]

\* DiffKeyFn.chainBseq
chainBseqKeyFn(b, keyfn) ==
    indexLoop([n \in 1..Len(b) |-> keyfnApply(keyfn, b[n])])

(***************************************************************************)
(* With(v, Body) is Body(v) with v evaluated once: the local variables of  *)
(* the loops below are bound this way, each to its value at the top of an  *)
(* iteration.                                                              *)
(***************************************************************************)
With(v, Body(_)) == CHOOSE r \in {Body(x) : x \in {v}} : TRUE

(***************************************************************************)
(* longestMatch.  best = (bestI, bestJ, bestSize) and the row newJ2len of  *)
(* the run-length table being filled.                                      *)
(***************************************************************************)
newBest(bestI, bestJ, bestSize, newJ2len) ==
    [bestI |-> bestI, bestJ |-> bestJ, bestSize |-> bestSize,
     newJ2len |-> newJ2len]

\* a missing key of a Go map reads as the zero value
j2lenAt(j2len, j) == IF j \in DOMAIN j2len THEN j2len[j] ELSE 0

\* k >= bestSize: the last run of the greatest length would win
improvesOrTies(k, bestSize) == k >= bestSize

\* if k > bestSize
improves(k, bestSize) == k > bestSize

\* the body of the loop over indexes for an index j inside the window
scanIndex(i, j, j2len, best) ==
    With(j2lenAt(j2len, j - 1) + 1, LAMBDA k :
        IF improves(k, best.bestSize)
        THEN newBest(i - k + 1, j - k + 1, k, (j :> k) @@ best.newJ2len)
        ELSE [best EXCEPT !.newJ2len = (j :> k) @@ best.newJ2len])

\* the loop over indexes (for _, j := range indexes), from its n-th entry on
RECURSIVE scanIndexes(_, _, _, _, _, _, _)
scanIndexes(indexes, n, i, bStart, bEnd, j2len, best0) ==
    With(best0, LAMBDA best :
        IF n > Len(indexes) THEN best
        ELSE IF indexes[n] < bStart
        THEN scanIndexes(indexes, n + 1, i, bStart, bEnd, j2len, best)
        ELSE IF indexes[n] >= bEnd THEN best
        ELSE scanIndexes(indexes, n + 1, i, bStart, bEnd, j2len,
                 scanIndex(i, indexes[n], j2len, best)))

\* the loop over i of Diff.longestMatch, from i on; best0.newJ2len is j2len
RECURSIVE scanA(_, _, _, _, _, _)
scanA(a, index, i, aEnd, w, best0) ==
    With(best0, LAMBDA best :
        IF i >= aEnd THEN best
        ELSE scanA(a, index, i + 1, aEnd, w,
                 IF At(a, i) \in DOMAIN index
                 THEN scanIndexes(index[At(a, i)], 1, i, w.Bstart, w.Bend,
                          best.newJ2len, [best EXCEPT !.newJ2len = EmptyMap])
                 ELSE [best EXCEPT !.newJ2len = EmptyMap]))

\* the backward extension of Diff.longestMatch
RECURSIVE extendBack(_, _, _, _)
extendBack(a, b, w, m0) ==
    With(m0, LAMBDA m :
        IF /\ m.astart > w.Astart
           /\ m.bstart > w.Bstart
           /\ At(a, m.astart - 1) = At(b, m.bstart - 1)
        THEN extendBack(a, b, w,
                 newMatch(m.astart - 1, m.bstart - 1, m.length + 1))
        ELSE m)

\* the forward extension of Diff.longestMatch
RECURSIVE extendForward(_, _, _, _)
extendForward(a, b, w, m0) ==
    With(m0, LAMBDA m :
        IF /\ m.astart + m.length < w.Aend
           /\ m.bstart + m.length < w.Bend
           /\ At(a, m.astart + m.length) = At(b, m.bstart + m.length)
        THEN extendForward(a, b, w,
                 newMatch(m.astart, m.bstart, m.length + 1))
        ELSE m)

\* (bestI, bestJ, bestSize) as the loop over i leaves them
bestOf(best) == With(best, LAMBDA r : newMatch(r.bestI, r.bestJ, r.bestSize))

\* Diff.longestMatch up to the end of the loop over i: the run the index
\* lookups found, before the two extensions
scanOf(a, index, w) ==
    bestOf(scanA(a, index, w.Astart, w.Aend, w,
                 newBest(w.Astart, w.Bstart, 0, EmptyMap)))

\* Diff.longestMatch
longestMatch(a, b, index, w) ==
    extendForward(a, b, w,
        extendBack(a, b, w,
            bestOf(scanA(a, index, w.Astart, w.Aend, w,
                         newBest(w.Astart, w.Bstart, 0, EmptyMap)))))

\* me.keyfn(x) == me.keyfn(y)
sameKey(fn, x, y) == keyfnApply(fn, x) = keyfnApply(fn, y)

\* the loop over i of DiffKeyFn.longestMatch
RECURSIVE scanAKeyFn(_, _, _, _, _, _, _)
scanAKeyFn(a, index, fn, i, aEnd, w, best0) ==
    With(best0, LAMBDA best :
        IF i >= aEnd THEN best
        ELSE scanAKeyFn(a, index, fn, i + 1, aEnd, w,
                 IF keyfnApply(fn, At(a, i)) \in DOMAIN index
                 THEN scanIndexes(index[keyfnApply(fn, At(a, i))], 1, i,
                          w.Bstart, w.Bend,
                          best.newJ2len, [best EXCEPT !.newJ2len = EmptyMap])
                 ELSE [best EXCEPT !.newJ2len = EmptyMap]))

\* the backward extension of DiffKeyFn.longestMatch
RECURSIVE extendBackKeyFn(_, _, _, _, _)
extendBackKeyFn(a, b, fn, w, m0) ==
    With(m0, LAMBDA m :
        IF /\ m.astart > w.Astart
           /\ m.bstart > w.Bstart
           /\ sameKey(fn, At(a, m.astart - 1), At(b, m.bstart - 1))
        THEN extendBackKeyFn(a, b, fn, w,
                 newMatch(m.astart - 1, m.bstart - 1, m.length + 1))
        ELSE m)

\* the forward extension of DiffKeyFn.longestMatch
RECURSIVE extendForwardKeyFn(_, _, _, _, _)
extendForwardKeyFn(a, b, fn, w, m0) ==
    With(m0, LAMBDA m :
        IF /\ m.astart + m.length < w.Aend
           /\ m.bstart + m.length < w.Bend
           /\ sameKey(fn, At(a, m.astart + m.length),
                      At(b, m.bstart + m.length))
        THEN extendForwardKeyFn(a, b, fn, w,
                 newMatch(m.astart, m.bstart, m.length + 1))
        ELSE m)

\* DiffKeyFn.longestMatch
longestMatchKeyFn(a, b, index, fn, w) ==
    extendForwardKeyFn(a, b, fn, w,
        extendBackKeyFn(a, b, fn, w,
            bestOf(scanAKeyFn(a, index, fn, w.Astart, w.Aend, w,
                              newBest(w.Astart, w.Bstart, 0, EmptyMap)))))

(***************************************************************************)
(* The engine d is a Diff or a DiffKeyFn.                                  *)
(***************************************************************************)
newDiff(k, fn, a, b, index) ==
    [kind |-> k, keyfn |-> fn, A |-> a, B |-> b, b2j |-> index]

\* diff.chainBseq() of New and of NewKeyFn
chainBseqOf(k, fn, b) ==
    IF k = "Diff" THEN chainBseq(b) ELSE chainBseqKeyFn(b, fn)

\* d.longestMatch(w)
longestMatchOf(d, w) ==
    IF d.kind = "Diff"
    THEN longestMatch(d.A, d.B, d.b2j, w)
    ELSE longestMatchKeyFn(d.A, d.B, d.b2j, d.keyfn, w)

(***************************************************************************)
(* matches(): the worklist loop.                                           *)
(***************************************************************************)
\* both sub-quads pushed with <= for <: empty quads reach the worklist
subQuadsNonStrict(w, m) ==
    (IF w.Astart <= m.astart /\ w.Bstart <= m.bstart
     THEN <<newQuad(w.Astart, m.astart, w.Bstart, m.bstart)>> ELSE <<>>)
    \o (IF m.astart + m.length <= w.Aend /\ m.bstart + m.length <= w.Bend
        THEN <<newQuad(m.astart + m.length, w.Aend,
                       m.bstart + m.length, w.Bend)>>
        ELSE <<>>)

\* the quads one iteration appends to the queue for a match (i, j, k) of
\* length k > 0 found in w
subQuads(w, m) ==
    (IF w.Astart < m.astart /\ w.Bstart < m.bstart
     THEN <<newQuad(w.Astart, m.astart, w.Bstart, m.bstart)>> ELSE <<>>)
    \o (IF m.astart + m.length < w.Aend /\ m.bstart + m.length < w.Bend
        THEN <<newQuad(m.astart + m.length, w.Aend,
                       m.bstart + m.length, w.Bend)>>
        ELSE <<>>)

\* the queue without its n-th entry (for n = Len(q): queue[:end])
without(q, n) == SubSeq(q, 1, n - 1) \o SubSeq(q, n + 1, Len(q))

\* one iteration of the loop, taking the n-th entry of the queue q: the
\* quad taken, its match, and the queue and the matches it leaves
iteration(d, q, ms, n) ==
    With(longestMatchOf(d, q[n]), LAMBDA m :
        IF m.length > 0
        THEN [quad |-> q[n], match |-> m,
              queue |-> without(q, n) \o subQuads(q[n], m),
              matches |-> Append(ms, m)]
        ELSE [quad |-> q[n], match |-> m,
              queue |-> without(q, n), matches |-> ms])

\* the loop as the code runs it: the last entry of the queue first
RECURSIVE matchesLoop(_, _, _)
matchesLoop(d, q0, ms0) ==
    With(<<q0, ms0>>, LAMBDA s :
        IF Len(s[1]) = 0 THEN s[2]
        ELSE With(iteration(d, s[1], s[2], Len(s[1])), LAMBDA it :
                 matchesLoop(d, it.queue, it.matches)))

(***************************************************************************)
(* matches(): the sort and the merge of adjacent matches.                  *)
(***************************************************************************)
\* ms, sorted, with m put in its place
RECURSIVE insertSorted(_, _)
insertSorted(ms0, m) ==
    With(ms0, LAMBDA ms :
        IF ms = <<>> THEN <<m>>
        ELSE IF matchLess(m, Head(ms)) THEN <<m>> \o ms
        ELSE <<Head(ms)>> \o insertSorted(Tail(ms), m))

RECURSIVE sortLoop(_, _)
sortLoop(ms0, sorted0) ==
    With(<<ms0, sorted0>>, LAMBDA s :
        IF s[1] = <<>> THEN s[2]
        ELSE sortLoop(Tail(s[1]), insertSorted(s[2], Head(s[1]))))

\* no sort at all
sortMatchesOmitted(ms) == ms

\* slices.SortFunc(matches, matchCompare)
sortMatches(ms) == sortLoop(ms, <<>>)

\* the body of the loop over the sorted matches for match m: s.acc is
\* (aStart, bStart, length), s.out is nonAdjacent
mergeStep(s, m) ==
    IF /\ s.acc.astart + s.acc.length = m.astart
       /\ s.acc.bstart + s.acc.length = m.bstart
    THEN [acc |-> newMatch(s.acc.astart, s.acc.bstart,
                           s.acc.length + m.length),
          out |-> s.out]
    ELSE [acc |-> m,
          out |-> IF s.acc.length # 0 THEN Append(s.out, s.acc) ELSE s.out]

\* the loop over the sorted matches, from the n-th on, and the flush of
\* the last (aStart, bStart, length) after it
RECURSIVE mergeLoop(_, _, _)
mergeLoop(ms, n, s0) ==
    With(s0, LAMBDA s :
        IF n > Len(ms)
        THEN IF s.acc.length # 0 THEN Append(s.out, s.acc) ELSE s.out
        ELSE mergeLoop(ms, n + 1, mergeStep(s, ms[n])))

\* the merged matches of the recorded matches ms
mergedOf(ms) ==
    With(sortMatches(ms), LAMBDA sorted :
        mergeLoop(sorted, 1, [acc |-> newMatch(0, 0, 0), out |-> <<>>]))

\* the same without the final newMatch(aLength, bLength, 0)
nonAdjacentOfNoSentinel(ms, aLength, bLength) == mergedOf(ms)

\* what matches() returns for the matches ms the loop recorded
nonAdjacentOf(ms, aLength, bLength) ==
    Append(mergedOf(ms), newMatch(aLength, bLength, 0))

\* d.matches()
matchesOf(d) ==
    nonAdjacentOf(
        matchesLoop(d, <<newQuad(0, Len(d.A), 0, Len(d.B))>>, <<>>),
        Len(d.A), Len(d.B))

(***************************************************************************)
(* spansForMatches and Blocks.                                             *)
(***************************************************************************)
\* Insert and Delete swapped
gapTagSwapped(i, j, m) ==
    IF i < m.astart
    THEN IF j < m.bstart THEN Replace ELSE Insert
    ELSE IF j < m.bstart THEN Delete ELSE Equal

\* a tag that never stays Equal: a gap span before every match
gapTagAlwaysGap(i, j, m) ==
    IF i < m.astart
    THEN IF j < m.bstart THEN Replace ELSE Delete
    ELSE Insert

\* the tag of the gap before match m; var tag Tag starts as Equal
gapTag(i, j, m) ==
    IF i < m.astart
    THEN IF j < m.bstart THEN Replace ELSE Delete
    ELSE IF j < m.bstart THEN Insert ELSE Equal

\* a gap in both sequences appended as a Delete span and an Insert span
withGapSplit(spans, i, j, m) ==
    IF i < m.astart /\ j < m.bstart
    THEN spans \o <<newSpan(Delete, i, m.astart, j, j),
                    newSpan(Insert, m.astart, m.astart, j, m.bstart)>>
    ELSE IF i < m.astart
    THEN Append(spans, newSpan(Delete, i, m.astart, j, m.bstart))
    ELSE IF j < m.bstart
    THEN Append(spans, newSpan(Insert, i, m.astart, j, m.bstart))
    ELSE spans

\* the spans with the gap before match m appended, when it has a tag
withGap(spans, i, j, m) ==
    With(gapTag(i, j, m), LAMBDA tag :
        IF tag # Equal
        THEN Append(spans, newSpan(tag, i, m.astart, j, m.bstart))
        ELSE spans)

\* the body of the loop of spansForMatches for match m
spanStep(s, m) ==
    [i |-> m.astart + m.length,
     j |-> m.bstart + m.length,
     spans |-> IF m.length # 0
               THEN Append(withGap(s.spans, s.i, s.j, m),
                        newSpan(Equal, m.astart, m.astart + m.length,
                                m.bstart, m.bstart + m.length))
               ELSE withGap(s.spans, s.i, s.j, m)]

RECURSIVE spansLoop(_, _, _)
spansLoop(ms, n, s0) ==
    With(s0, LAMBDA s :
        IF n > Len(ms) THEN s.spans
        ELSE spansLoop(ms, n + 1, spanStep(s, ms[n])))

spansForMatches(ms0) ==
    With(ms0, LAMBDA ms :
        spansLoop(ms, 1, [i |-> 0, j |-> 0, spans |-> <<>>]))

\* span.Aend < len(me.A): an end index equal to the length taken as out of
\* range
endInRangeStrict(end, length) == end < length

\* if span.Aend <= len(me.A), if span.Bend <= len(me.B)
endInRange(end, length) == end <= length

\* the block of one span; a nil slice is the empty sequence
blockOf(a, b, span) ==
    newBlock(span.Tag,
        IF endInRange(span.Aend, Len(a))
        THEN Slice(a, span.Astart, span.Aend) ELSE <<>>,
        IF endInRange(span.Bend, Len(b))
        THEN Slice(b, span.Bstart, span.Bend) ELSE <<>>)

\* the loop of Blocks() over the spans
blocksOf(a, b, spans) == [n \in 1..Len(spans) |-> blockOf(a, b, spans[n])]

\* d.Spans()
SpansOf(d) == spansForMatches(matchesOf(d))

\* d.Blocks()
BlocksOf(d) == With(SpansOf(d), LAMBDA spans : blocksOf(d.A, d.B, spans))

(***************************************************************************)
(* The inputs.                                                             *)
(***************************************************************************)
SeqsUpTo(S, n) == UNION {[1..m -> S] : m \in 0..n}

newInput(kind, keyfn, a, b) == [kind |-> kind, keyfn |-> keyfn, A |-> a, B |-> b]

\* every pair of sequences of Elems up to MaxLen, for New
DirectInputs ==
    {newInput("Diff", "none", a, b) :
        a \in SeqsUpTo(Elems, MaxLen), b \in SeqsUpTo(Elems, MaxLen)}

\* B of length PopularMinLen: a run of Filler between two short sequences
LongB(u, w) ==
    u \o [n \in 1..(PopularMinLen - Len(u) - Len(w)) |-> Filler] \o w

LongInputs ==
    {newInput("Diff", "none", a, LongB(uw[1], uw[2])) :
        a \in SeqsUpTo(Elems, MaxLen),
        uw \in {p \in SeqsUpTo(Elems, MaxAffix) \X SeqsUpTo(Elems, MaxAffix) :
                    Len(p[1]) + Len(p[2]) <= MaxAffix}}

\* the places of the keyed inputs: each key function gives two of the
\* three the same key, and not the same two
Places == {newPlace(1, "foo"), newPlace(2, "foo"), newPlace(1, "bar")}

KeyFns == {"name", "x"}

\* every pair of sequences of Places up to MaxKeyLen, for NewKeyFn with
\* each key function
KeyedInputs ==
    {newInput("DiffKeyFn", keyfn, a, b) :
        keyfn \in KeyFns,
        a \in SeqsUpTo(Places, MaxKeyLen), b \in SeqsUpTo(Places, MaxKeyLen)}

\* Test006, Test011, Test012: [1,2,3,4,5,6] against [2,3,5,7], and the same
\* arrangement of seven other pairwise-distinct elements
ScenarioA == <<1, 2, 3, 4, 5, 6>>
ScenarioB == <<2, 3, 5, 7>>
Relabels ==
    {[x \in 1..7 |-> x], [x \in 1..7 |-> 8 - x], [x \in 1..7 |-> 3 * x + 10],
     [x \in 1..7 |-> (x * 3) % 7]}
relabel(r, s) == [n \in 1..Len(s) |-> r[s[n]]]

ScenarioInputs ==
    {newInput("Diff", "none", relabel(r, ScenarioA), relabel(r, ScenarioB)) :
        r \in Relabels}

\* Test001 (foo bar baz quux as 1 2 3 4) and Test007 (runes as numbers)
TestInputs ==
    {newInput("Diff", "none", <<1, 2, 3, 4>>, <<1, 3, 2, 4>>),
     newInput("Diff", "none", <<9, 1, 2, 7, 3, 4>>, <<1, 2, 8, 3, 4, 6>>)}

\* ExampleDiffKeyFn_Blocks_namekey and ExampleDiffKeyFn_Blocks_xkey
ExampleInputs ==
    {newInput("DiffKeyFn", "name",
        <<newPlace(1, "foo"), newPlace(3, "bar"), newPlace(5, "baz"),
          newPlace(7, "quux")>>,
        <<newPlace(1, "foo"), newPlace(6, "baz"), newPlace(3, "bar"),
          newPlace(7, "quux")>>),
     newInput("DiffKeyFn", "x",
        <<newPlace(1, "foo"), newPlace(3, "bar"), newPlace(5, "baz"),
          newPlace(7, "quux")>>,
        <<newPlace(1, "foo"), newPlace(6, "bar"), newPlace(3, "baz"),
          newPlace(7, "quux")>>)}

\* inputs whose first match leaves work on both sides: a common core
\* <<2, 3>> between flanks of 1 and 4, up to MaxFlank long in A and at
\* most one element in B
Core == <<2, 3>>
FlankElems == {1, 4}
FlanksOfB == {<<>>} \cup {<<e>> : e \in FlankElems}

BranchInputs ==
    {newInput("Diff", "none", f[1] \o Core \o f[2], f[3] \o Core \o f[4]) :
        f \in SeqsUpTo(FlankElems, MaxFlank) \X SeqsUpTo(FlankElems, MaxFlank)
              \X FlanksOfB \X FlanksOfB}

\* B with one element, 2, repeated c times between a 9 and an 8, and then
\* elements that occur once each, length elements in all
CountB(c, length) ==
    <<9>> \o [n \in 1..c |-> 2] \o <<8>>
        \o [n \in 1..(length - c - 2) |-> 10 + n]

\* len(B) just below the length that prunes, at it, and where the limit
\* is one more
CountLengths ==
    {PopularMinLen - 1, PopularMinLen, PopularMinLen + PopularDivisor}

\* the counted inputs: the repetitions of 2 in B go up to MaxCount, past
\* the limit of every length of CountLengths; A is made of the repeated
\* element and its two neighbours
CountInputs ==
    {newInput("Diff", "none", a, CountB(c, length)) :
        a \in SeqsUpTo({2, 8, 9}, MaxCountLen), c \in 0..MaxCount,
        length \in CountLengths}

\* keyed inputs with len(B) = PopularMinLen and one key for all of B; A is
\* empty or one place with another key
KeyedLongInputs ==
    {newInput("DiffKeyFn", "name", a,
        [n \in 1..PopularMinLen |-> newPlace(1, "foo")]) :
        a \in {<<>>, <<newPlace(1, "bar")>>}}
    \cup
    {newInput("DiffKeyFn", "x", a,
        [n \in 1..PopularMinLen |-> newPlace(1, "foo")]) :
        a \in {<<>>, <<newPlace(2, "foo")>>}}

Inputs ==
    DirectInputs \cup LongInputs \cup KeyedInputs \cup BranchInputs
        \cup ScenarioInputs \cup TestInputs \cup ExampleInputs

\* the inputs on which the index is compared with B: short and long B,
\* counts around the limit, both engines
PruningInputs ==
    CountInputs \cup KeyedLongInputs \cup LongInputs \cup DirectInputs
        \cup KeyedInputs \cup ExampleInputs

\* the inputs on which longestMatch is called with every window
WindowInputs ==
    {in \in DirectInputs : Len(in.A) <= MaxWinLen /\ Len(in.B) <= MaxWinLen}
        \cup KeyedInputs \cup ScenarioInputs \cup ExampleInputs

(***************************************************************************)
(* The state.                                                              *)
(***************************************************************************)
VARIABLES
    kind,       \* "Diff" (New) or "DiffKeyFn" (NewKeyFn)
    keyfn,      \* DiffKeyFn.keyfn
    A,          \* me.A
    B,          \* me.B
    b2j,        \* me.b2j
    pc,         \* "args", "constructed", "matches" (in the worklist loop),
                \* "returned", "longestMatch" (a direct call has returned)
    op,         \* the method running or returned: "Spans" or "Blocks"
    queue,      \* matches(): queue
    matches,    \* matches(): matches
    quad,       \* the last window handed to longestMatch
    match,      \* the last result of longestMatch
    spans,      \* the spans of the call
    blocks      \* what Blocks() returned

vars == <<kind, keyfn, A, B, b2j, pc, op, queue, matches, quad, match,
          spans, blocks>>

me == newDiff(kind, keyfn, A, B, b2j)

InitWith(inputs) ==
    /\ \E in \in inputs :
        /\ kind = in.kind
        /\ keyfn = in.keyfn
        /\ A = in.A
        /\ B = in.B
    /\ b2j = EmptyMap
    /\ pc = "args"
    /\ op = "none"
    /\ queue = <<>>
    /\ matches = <<>>
    /\ quad = newQuad(0, 0, 0, 0)
    /\ match = newMatch(0, 0, 0)
    /\ spans = <<>>
    /\ blocks = <<>>

Init == InitWith(Inputs)

InitWindows == InitWith(WindowInputs)

InitPruning == InitWith(PruningInputs)

\* New(a, b) and NewKeyFn(a, b, keyfn)
New ==
    /\ pc = "args"
    /\ b2j' = chainBseqOf(kind, keyfn, B)
    /\ pc' = "constructed"
    /\ UNCHANGED <<kind, keyfn, A, B, op, queue, matches, quad, match,
                   spans, blocks>>

\* the entry of matches(): queue := []Quad{newQuad(0, aLength, 0, bLength)}
enterMatches ==
    /\ queue' = <<newQuad(0, Len(A), 0, Len(B))>>
    /\ matches' = <<>>
    /\ pc' = "matches"
    /\ UNCHANGED <<kind, keyfn, A, B, b2j, quad, match, spans, blocks>>

\* me.Spans() is called
CallSpans ==
    /\ pc = "constructed"
    /\ op' = "Spans"
    /\ enterMatches

\* me.Blocks() is called
CallBlocks ==
    /\ pc = "constructed"
    /\ op' = "Blocks"
    /\ enterMatches

\* one iteration of the worklist loop taking the n-th entry
iterate(n) ==
    \E it \in {iteration(me, queue, matches, n)} :
       /\ quad' = it.quad
       /\ match' = it.match
       /\ queue' = it.queue
       /\ matches' = it.matches
       /\ UNCHANGED <<kind, keyfn, A, B, b2j, pc, op, spans, blocks>>

\* for len(queue) > 0: the last entry is taken
MatchesStep ==
    /\ pc = "matches"
    /\ Len(queue) > 0
    /\ iterate(Len(queue))

\* the same loop taking any pending entry
MatchesStepAnyOrder ==
    /\ pc = "matches"
    /\ Len(queue) > 0
    /\ \E n \in 1..Len(queue) : iterate(n)

\* the loop has ended: the sort, the merge, spansForMatches and, in
\* Blocks(), the blocks
MatchesReturn ==
    /\ pc = "matches"
    /\ Len(queue) = 0
    /\ \E result \in {spansForMatches(nonAdjacentOf(matches, Len(A), Len(B)))} :
          /\ spans' = result
          /\ blocks' = IF op = "Blocks" THEN blocksOf(A, B, result) ELSE <<>>
    /\ pc' = "returned"
    /\ UNCHANGED <<kind, keyfn, A, B, b2j, op, queue, matches, quad, match>>

Windows ==
    {newQuad(a1, a2, b1, b2) :
        a1 \in 0..Len(A), a2 \in 0..Len(A), b1 \in 0..Len(B), b2 \in 0..Len(B)}

\* me.longestMatch(quad) called on its own, as Test012 does
CallLongestMatch ==
    /\ pc = "constructed"
    /\ \E w \in {q \in Windows : q.Astart <= q.Aend /\ q.Bstart <= q.Bend} :
        /\ quad' = w
        /\ match' = longestMatchOf(me, w)
    /\ pc' = "longestMatch"
    /\ UNCHANGED <<kind, keyfn, A, B, b2j, op, queue, matches, spans, blocks>>

Next == New \/ CallSpans \/ CallBlocks \/ MatchesStep \/ MatchesReturn

Spec == Init /\ [][Next]_vars

\* the worklist loop is a sequential loop: it runs while it can
FairSpec == Spec /\ WF_vars(Next)

NextAnyOrder ==
    New \/ CallSpans \/ CallBlocks \/ MatchesStepAnyOrder \/ MatchesReturn

SpecAnyOrder == Init /\ [][NextAnyOrder]_vars

NextWindows == New \/ CallLongestMatch

SpecWindows == InitWindows /\ [][NextWindows]_vars

SpecPruning == InitPruning /\ [][Next]_vars

(***************************************************************************)
(* The properties.                                                         *)
(***************************************************************************)
SpansReturned == pc = "returned" /\ op = "Spans"

BlocksReturned == pc = "returned" /\ op = "Blocks"

\* the concatenation of a sequence of sequences, in order
RECURSIVE concat(_)
concat(ss) == IF ss = <<>> THEN <<>> ELSE Head(ss) \o concat(Tail(ss))

\* equality of two elements as the engine of the state decides it: the
\* values themselves in a Diff, their keys in a DiffKeyFn
engineEqual(x, y) ==
    IF kind = "Diff" THEN x = y
    ELSE keyfnApply(keyfn, x) = keyfnApply(keyfn, y)

\* the one span of tag that covers [0, aEnd) and [0, bEnd)
wholeSpan(tag, aEnd, bEnd) == <<newSpan(tag, 0, aEnd, 0, bEnd)>>

\* C1: when Blocks() has returned, in a Diff and in a DiffKeyFn, the
\* Aitems of the blocks, concatenated in order, are A and the Bitems are B;
\* there is one block per span and no span ends past len(A) or len(B), so
\* neither guard of Blocks() was false
C1_BlocksReconstruct ==
    BlocksReturned =>
        /\ concat([n \in 1..Len(blocks) |-> blocks[n].Aitems]) = A
        /\ concat([n \in 1..Len(blocks) |-> blocks[n].Bitems]) = B
        /\ Len(blocks) = Len(spans)
        /\ \A n \in 1..Len(spans) :
            spans[n].Aend <= Len(A) /\ spans[n].Bend <= Len(B)

\* Blocks() of a DiffKeyFn has returned three blocks or more, the last one
\* ending at len(A) and at len(B)
C1_Witness ==
    /\ BlocksReturned
    /\ kind = "DiffKeyFn"
    /\ Len(blocks) >= 3
    /\ spans[Len(spans)].Aend = Len(A)
    /\ spans[Len(spans)].Bend = Len(B)
    /\ blocks[Len(blocks)].Aitems # <<>>

\* C2: the spans Spans() returns are contiguous on both sides in lockstep:
\* the first starts at 0 and 0, each later one starts where the one before
\* it ends, no range is reversed, and the last ends at len(A) and len(B)
C2_SpansContiguous ==
    SpansReturned =>
        /\ Len(spans) > 0 =>
            /\ spans[1].Astart = 0 /\ spans[1].Bstart = 0
            /\ spans[Len(spans)].Aend = Len(A)
            /\ spans[Len(spans)].Bend = Len(B)
        /\ \A n \in 2..Len(spans) :
            /\ spans[n].Astart = spans[n - 1].Aend
            /\ spans[n].Bstart = spans[n - 1].Bend
        /\ \A n \in 1..Len(spans) :
            /\ spans[n].Astart <= spans[n].Aend
            /\ spans[n].Bstart <= spans[n].Bend

\* Spans() has returned four spans or more, one of them with an empty range
C2_Witness ==
    /\ SpansReturned
    /\ Len(spans) >= 4
    /\ \E n \in 1..Len(spans) : spans[n].Astart = spans[n].Aend

\* the shape the tag of a span requires
spanShape(span) ==
    LET aLen == span.Aend - span.Astart
        bLen == span.Bend - span.Bstart
    IN CASE span.Tag = Insert -> aLen = 0 /\ bLen > 0
         [] span.Tag = Delete -> bLen = 0 /\ aLen > 0
         [] span.Tag = Replace -> aLen > 0 /\ bLen > 0
         [] span.Tag = Equal ->
                /\ aLen = bLen
                /\ aLen > 0
                /\ \A n \in 0..(aLen - 1) :
                    engineEqual(At(A, span.Astart + n), At(B, span.Bstart + n))
         [] OTHER -> FALSE

\* C3: every span Spans() returns has the shape of its tag, with and
\* without elements pruned from the index: Insert has an empty A range and
\* a non-empty B range, Delete the reverse, Replace two non-empty ranges,
\* Equal two ranges of one positive length whose elements are pairwise
\* equal for the engine
C3_SpanShapes ==
    SpansReturned => \A n \in 1..Len(spans) : spanShape(spans[n])

\* Spans() has returned for a B whose repeated element was pruned from the
\* index, with an Equal span that holds that element and a Replace span
C3_Witness ==
    /\ SpansReturned
    /\ kind = "Diff"
    /\ Len(B) >= PopularMinLen
    /\ Filler \notin DOMAIN b2j
    /\ \E n \in 1..Len(spans) :
        /\ spans[n].Tag = Equal
        /\ spans[n].Aend - spans[n].Astart >= 2
        /\ \E i \in spans[n].Astart..(spans[n].Aend - 1) : At(A, i) = Filler
    /\ \E n \in 1..Len(spans) : spans[n].Tag = Replace

\* C4 as claimed: Spans() of any sequence against itself is one Equal span
\* over the whole range
C4_AnySequence ==
    (SpansReturned /\ A = B) => spans = wholeSpan(Equal, Len(A), Len(B))

\* C4: Spans() of a non-empty sequence against itself is exactly one Equal
\* span over [0, len) on both sides; of the empty sequence against itself
\* it is no span at all
C4_SelfDiff ==
    (SpansReturned /\ A = B) =>
        IF Len(A) > 0 THEN spans = wholeSpan(Equal, Len(A), Len(B))
        ELSE spans = <<>>

\* Spans() has returned for a sequence against itself in which an element
\* occurs twice
C4_Witness ==
    /\ SpansReturned
    /\ A = B
    /\ Len(A) >= 3
    /\ \E i, j \in 1..Len(A) : i # j /\ A[i] = A[j]

\* C5: Spans() of an empty A and a non-empty B is the one span Insert
\* [0,0) [0,len(B)); of a non-empty A and an empty B it is the one span
\* Delete [0,len(A)) [0,0)
C5_EmptySide ==
    /\ (SpansReturned /\ Len(A) = 0 /\ Len(B) > 0) =>
            spans = wholeSpan(Insert, 0, Len(B))
    /\ (SpansReturned /\ Len(B) = 0 /\ Len(A) > 0) =>
            spans = wholeSpan(Delete, Len(A), 0)

\* Spans() has returned the Insert span for an empty A
C5_Witness ==
    /\ SpansReturned
    /\ Len(A) = 0
    /\ Len(B) = MaxLen
    /\ spans = wholeSpan(Insert, 0, MaxLen)

\* the sequence of the keys of a sequence of places
keysOf(s) == [n \in 1..Len(s) |-> keyfnApply(keyfn, s[n])]

\* New(keys of A, keys of B): the direct-equality engine on the keys
directOnKeys == newDiff("Diff", "none", keysOf(A), keysOf(B), chainBseq(keysOf(B)))

\* C6: for len(B) < 200, the spans a DiffKeyFn returns for A and B under a
\* key function are the spans a Diff returns for the sequences of the keys
\* of A and of B: only the keys decide
C6_KeyedAsDirectOnKeys ==
    (pc = "returned" /\ kind = "DiffKeyFn" /\ Len(B) < PopularMinLen) =>
        spans = SpansOf(directOnKeys)

\* a DiffKeyFn has returned an Equal span that aligns two places with the
\* same key and different other fields, B holding a key twice
C6_Witness ==
    /\ pc = "returned"
    /\ kind = "DiffKeyFn"
    /\ \E n \in 1..Len(spans) :
        /\ spans[n].Tag = Equal
        /\ At(A, spans[n].Astart) # At(B, spans[n].Bstart)
    /\ \E i, j \in 1..Len(B) :
        i # j /\ keyfnApply(keyfn, B[i]) = keyfnApply(keyfn, B[j])

\* the spans and the items Test011 and Test006 expect, relabelled by r
scenarioSpans ==
    <<newSpan(Delete, 0, 1, 0, 0), newSpan(Equal, 1, 3, 0, 2),
      newSpan(Delete, 3, 4, 2, 2), newSpan(Equal, 4, 5, 2, 3),
      newSpan(Replace, 5, 6, 3, 4)>>

scenarioItems(r) ==
    <<relabel(r, <<1>>), relabel(r, <<2, 3>>), relabel(r, <<4>>),
      relabel(r, <<5>>), relabel(r, <<7>>)>>

\* C7: for A = [1,2,3,4,5,6] and B = [2,3,5,7], and for seven other
\* pairwise-distinct elements so arranged, the spans are Delete A[0:1],
\* Equal A[1:3] B[0:2], Delete A[3:4], Equal A[4:5] B[2:3], Replace A[5:6]
\* B[3:4], and the blocks of Blocks() carry the same tags with the Items()
\* [1], [2,3], [4], [5], [7]
C7_Scenario ==
    \A r \in Relabels :
        (/\ pc = "returned"
         /\ kind = "Diff"
         /\ A = relabel(r, ScenarioA)
         /\ B = relabel(r, ScenarioB)) =>
            /\ spans = scenarioSpans
            /\ op = "Blocks" =>
                /\ [n \in 1..Len(blocks) |-> blocks[n].Tag]
                       = [n \in 1..Len(spans) |-> spans[n].Tag]
                /\ [n \in 1..Len(blocks) |-> Items(blocks[n])]
                       = scenarioItems(r)

\* Blocks() has returned for the scenario with its elements relabelled
C7_Witness ==
    /\ BlocksReturned
    /\ Len(blocks) = 5
    /\ \E r \in Relabels :
        /\ r[1] # 1
        /\ A = relabel(r, ScenarioA)
        /\ B = relabel(r, ScenarioB)

\* the runs of the window: (i, j, k), k > 0, with A[i..i+k) inside the A
\* range, B[j..j+k) inside the B range and the two equal for the engine
runsIn(w) ==
    {run \in (w.Astart..w.Aend) \X (w.Bstart..w.Bend)
                \X (1..(w.Aend - w.Astart)) :
        /\ run[1] + run[3] <= w.Aend
        /\ run[2] + run[3] <= w.Bend
        /\ \A n \in 0..(run[3] - 1) :
            engineEqual(At(A, run[1] + n), At(B, run[2] + n))}

\* run r1 comes before r2: longer, or as long and starting earlier in A,
\* or as long, starting at the same place in A and earlier in B
runBefore(r1, r2) ==
    \/ r1[3] > r2[3]
    \/ r1[3] = r2[3] /\ r1[1] < r2[1]
    \/ r1[3] = r2[3] /\ r1[1] = r2[1] /\ r1[2] <= r2[2]

\* C8: with nothing pruned from the index, longestMatch(quad) returns, of
\* the runs inside the window, one of the greatest length, and of these the
\* one that starts first in A and then first in B; for a window with no
\* common element it returns (quad.Astart, quad.Bstart, 0)
C8_LongestMatch ==
    (pc = "longestMatch" /\ (kind = "DiffKeyFn" \/ Len(B) < PopularMinLen)) =>
        LET runs == runsIn(quad)
        IN IF runs = {}
           THEN match = newMatch(quad.Astart, quad.Bstart, 0)
           ELSE /\ <<match.astart, match.bstart, match.length>> \in runs
                /\ \A run \in runs :
                    runBefore(<<match.astart, match.bstart, match.length>>, run)

\* longestMatch has returned for a window smaller than the sequences that
\* holds two runs of the greatest length, a later one starting earlier in B
C8_Witness ==
    /\ pc = "longestMatch"
    /\ quad.Astart > 0
    /\ quad.Bend < Len(B)
    /\ match.length >= 1
    /\ \E run \in runsIn(quad) :
         /\ run[3] = match.length
         /\ run[1] > match.astart
         /\ run[2] < match.bstart

\* the size of a window: the lengths of its two ranges together
quadSize(q) == (q.Aend - q.Astart) + (q.Bend - q.Bstart)

\* sub-quad q of parent p, split off around match m: non-empty on both
\* sides, inside p, clear of m, and smaller than p
shrinks(q, p, m) ==
    /\ q.Astart < q.Aend
    /\ q.Bstart < q.Bend
    /\ p.Astart <= q.Astart /\ q.Aend <= p.Aend
    /\ p.Bstart <= q.Bstart /\ q.Bend <= p.Bend
    /\ \/ q.Aend <= m.astart /\ q.Bend <= m.bstart
       \/ m.astart + m.length <= q.Astart /\ m.bstart + m.length <= q.Bstart
    /\ quadSize(q) < quadSize(p)

\* what an iteration of the loop pushed: the entries of the new queue past
\* those left of the old one
pushedByStep == SubSeq(queue', Len(queue), Len(queue'))

\* every iteration pushes only non-empty sub-quads that lie inside the quad
\* it took, clear of the match found there, and are smaller than it; it
\* pushes nothing when the match has length zero; and the match lies in
\* the quad
StepShrinks ==
    MatchesStep =>
        /\ quad' = queue[Len(queue)]
        /\ match'.length = 0 => pushedByStep = <<>>
        /\ match'.length > 0 => match'.length <= quadSize(quad')
        /\ \A n \in 1..Len(pushedByStep) :
            shrinks(pushedByStep[n], quad', match')

\* C9: the worklist loop of matches() terminates: once entered, the queue
\* becomes empty; every sub-quad pushed is non-empty in both dimensions,
\* lies inside the quad it was split from without the positive-length
\* match found there and is smaller than it, and a quad whose longest
\* match has length zero pushes nothing
C9_LoopTerminates ==
    /\ [][StepShrinks]_vars
    /\ (pc = "matches") ~> (pc = "matches" /\ Len(queue) = 0)

\* the loop has just pushed two sub-quads for one match
C9_Witness ==
    /\ pc = "matches"
    /\ match.length > 0
    /\ Len(queue) >= 2
    /\ shrinks(queue[Len(queue)], quad, match)
    /\ shrinks(queue[Len(queue) - 1], quad, match)

\* the set of the entries of a sequence
setOf(s) == {s[n] : n \in 1..Len(s)}

\* the matches the loop records in the order of the code, last in first out
lifoMatches == matchesLoop(me, <<newQuad(0, Len(A), 0, Len(B))>>, <<>>)

\* C10: whatever pending quad each iteration takes, the loop records the
\* matches that the last-in-first-out order records, matches() returns the
\* merged list that order returns, and the call returns the spans that
\* order returns
C10_OrderIndependent ==
    pc = "returned" =>
        /\ setOf(matches) = setOf(lifoMatches)
        /\ Len(matches) = Len(lifoMatches)
        /\ nonAdjacentOf(matches, Len(A), Len(B)) = matchesOf(me)
        /\ spans = SpansOf(me)

\* a call has returned after taking the quads in another order than last
\* in first out: it recorded the matches in another order
C10_Witness ==
    /\ pc = "returned"
    /\ Len(matches) >= 3
    /\ matches # lifoMatches

\* the map key of element x of B: x itself in a Diff, its key in a DiffKeyFn
mapKey(x) == IF kind = "Diff" THEN x ELSE keyfnApply(keyfn, x)

\* the positions of B that hold map key x
positionsOf(x) == {i \in 0..(Len(B) - 1) : mapKey(At(B, i)) = x}

\* the map keys of B
keysOfB == {mapKey(B[n]) : n \in 1..Len(B)}

\* floor(len(B) / 100) + 1
popularLimit == (Len(B) \div 100) + 1

\* the engine prunes: a Diff with len(B) >= 200
prunes == kind = "Diff" /\ Len(B) >= 200

\* index maps x to the ascending list of all the positions of x in B
mapsAllPositions(index, x) ==
    /\ \A n \in 1..(Len(index[x]) - 1) : index[x][n] < index[x][n + 1]
    /\ {index[x][n] : n \in 1..Len(index[x])} = positionsOf(x)

\* the index as C11 describes it
indexAsClaimed ==
    /\ DOMAIN b2j \subseteq keysOfB
    /\ \A x \in keysOfB :
        IF prunes /\ Cardinality(positionsOf(x)) > popularLimit
        THEN x \notin DOMAIN b2j
        ELSE x \in DOMAIN b2j /\ mapsAllPositions(b2j, x)

\* the run the index lookups of the last longestMatch found holds no
\* element missing from the index, and the match returned is that run
\* extended along its diagonal
scanAsClaimed ==
    LET scanned == scanOf(A, b2j, quad)
    IN /\ \A n \in 0..(scanned.length - 1) :
            At(A, scanned.astart + n) \in DOMAIN b2j
       /\ match.astart <= scanned.astart
       /\ scanned.astart + scanned.length <= match.astart + match.length
       /\ match.astart - match.bstart = scanned.astart - scanned.bstart

\* C11: once New or NewKeyFn has returned, a Diff with len(B) >= 200 has
\* no index entry for an element that occurs more than floor(len(B)/100)+1
\* times in B, and every other element of B is mapped to the ascending list
\* of all its positions; with len(B) < 200, and in a DiffKeyFn, every
\* element (key) of B is so mapped; and the run a longestMatch of the
\* worklist loop finds by index lookups holds no element missing from the
\* index, so that such an element lies in a match only where an extension
\* put it
C11_Pruning ==
    /\ pc = "constructed" => indexAsClaimed
    /\ (pc = "matches" /\ kind = "Diff") => scanAsClaimed

\* in a Diff with len(B) >= 200 whose repeated element occurs once more
\* than the limit, a longestMatch of the loop has returned a match that
\* the index lookups started and an extension lengthened by that element
C11_Witness ==
    /\ pc = "matches"
    /\ prunes
    /\ \E x \in keysOfB :
        /\ Cardinality(positionsOf(x)) = popularLimit + 1
        /\ x \notin DOMAIN b2j
        /\ \E n \in 0..(match.length - 1) : At(A, match.astart + n) = x
    /\ scanOf(A, b2j, quad).length > 0
    /\ match.length > scanOf(A, b2j, quad).length

\* C12: in the spans a call has returned, Equal and non-Equal spans
\* alternate: of two consecutive spans exactly one is Equal, so matches
\* are never reported as two Equal spans in a row and a gap between two
\* matches is one Insert, Delete or Replace span
C12_SpansAlternate ==
    pc = "returned" =>
        \A n \in 1..(Len(spans) - 1) :
            (spans[n].Tag = Equal) # (spans[n + 1].Tag = Equal)

\* Spans() has returned five spans or more with a Replace span between two
\* Equal spans
C12_Witness ==
    /\ SpansReturned
    /\ Len(spans) >= 5
    /\ \E n \in 2..(Len(spans) - 1) :
        /\ spans[n].Tag = Replace
        /\ spans[n - 1].Tag = Equal
        /\ spans[n + 1].Tag = Equal

=============================================================================
